---- MODULE Spec2Model ----
(***************************************************************************)
(* State-machine model of the virtual power sensor of powercalc            *)
(* (custom_components/powercalc/sensors/power.py): the triggers that are   *)
(* subscribed in async_added_to_hass, the recompute cycle                  *)
(* _update_power_sensor / calculate_power, and the value the sensor        *)
(* publishes.  The event loop is single threaded: a coroutine runs until   *)
(* it awaits something that really suspends, so every action below is one  *)
(* such uninterrupted stretch of code.                                     *)
(***************************************************************************)
EXTENDS Integers, Sequences, FiniteSets, TLC

VARIABLES
    cfg,            \* constructor arguments of VirtualPowerSensor, read-only
    sensor_config,  \* what create_power_sensor is called with and finds
    setup,          \* how far create_power_sensor is, and what it has made
    hass_running,   \* hass.is_running
    added,          \* async_added_to_hass has run (listeners registered)
    removed,        \* Entity.async_remove has run (on_remove callbacks called)
    states,         \* hass.states: entity id -> state label, "None" if absent
    power,          \* self._power: None or a Decimal
    written,        \* what async_write_ha_state last wrote: None = unavailable
    queue,          \* listener tasks created by the event loop, not started yet
    waiting,        \* cycles suspended in `await self._power_calculator.calculate`
    cur,            \* initial_update between two iterations of its loop, or None
    budget,         \* number of events the environment may still produce
    triggers,       \* history: the triggers that arrived, with their attempts
    last            \* history: the recompute attempt that ended most recently

vars == <<cfg, sensor_config, setup, hass_running, added, removed, states, power, written, queue,
          waiting, cur, budget, triggers, last>>

----------------------------------------------------------------------------
(* Bounds of the model *)

\* number of environment events (state changes, template results, timer
\* ticks) in one behaviour
MaxEvents == 2

\* the same number for the behaviours of SpecCalc
MaxCalcEvents == 1

\* the same number for the behaviours of SpecSetup
MaxSetupEvents == 1

----------------------------------------------------------------------------
(* Values *)

None == [none |-> TRUE]

\* decimal.Decimal: coef * 10^(-exp)
Dec(c, e) == [coef |-> c, exp |-> e]

STATE_ON == "on"
STATE_OFF == "off"
STATE_NOT_HOME == "not_home"
STATE_STANDBY == "standby"
STATE_UNAVAILABLE == "unavailable"
STATE_UNKNOWN == "unknown"

DUMMY_ENTITY_ID == "sensor.dummy"

OFF_STATES == {STATE_OFF, STATE_NOT_HOME, STATE_STANDBY, STATE_UNAVAILABLE}

\* homeassistant.core.State, as far as the sensor reads it
State(entity_id, label) == [entity_id |-> entity_id, state |-> label]

\* a TrackTemplate object among the entities to track
TrackTemplate == "TrackTemplate"

RealSource == "light.src"
Secondary == "sensor.sec"

\* the entities that have a state in hass.states (sensor.dummy never has one)
Entities == {RealSource, Secondary}

\* the state labels the environment sets; "None" removes the entity
Labels == {"None", STATE_UNKNOWN, STATE_UNAVAILABLE, STATE_OFF, STATE_ON}

\* hass.states.get(entity_id)
StatesGet(st, entity_id) ==
    IF entity_id \in DOMAIN st /\ st[entity_id] /= "None"
    THEN State(entity_id, st[entity_id])
    ELSE None

----------------------------------------------------------------------------
(* Decimal arithmetic *)

RECURSIVE Pow10(_)
Pow10(n) == IF n <= 0 THEN 1 ELSE 10 * Pow10(n - 1)

Max(a, b) == IF a >= b THEN a ELSE b

\* Decimal.__mul__
DecMul(a, b) == Dec(a.coef * b.coef, a.exp + b.exp)

\* Decimal.__add__
DecAdd(a, b) ==
    LET e == Max(a.exp, b.exp)
    IN  Dec(a.coef * Pow10(e - a.exp) + b.coef * Pow10(e - b.exp), e)

\* round(Decimal, ndigits): quantize to ndigits fractional digits, half to even
DecRound(a, ndigits) ==
    IF ndigits >= a.exp
    THEN Dec(a.coef * Pow10(ndigits - a.exp), ndigits)
    ELSE LET d == Pow10(a.exp - ndigits)
             q == a.coef \div d
             r == a.coef % d
         IN  Dec(IF 2 * r > d \/ (2 * r = d /\ q % 2 = 1) THEN q + 1 ELSE q,
                 ndigits)

\* bool(x) of an optional Decimal: None and zero are falsy
Truthy(x) == x /= None /\ x.coef /= 0

----------------------------------------------------------------------------
(* The configuration an estimator is constructed with *)

\* strategy.get_entities_to_track(): entity ids and TrackTemplate objects
EntitiesToTrackOptions ==
    { <<>>, <<Secondary>>, <<RealSource, Secondary>>,
      <<TrackTemplate>>, <<Secondary, TrackTemplate>> }

\* The strategy is an external object behind PowerCalculationStrategyInterface:
\* calculate_results is the set of values its calculate may return and
\* calculate_suspends tells whether awaiting it can give up the event loop.
Configs ==
    [ source_entity            : {RealSource, DUMMY_ENTITY_ID},
      entities_to_track        : EntitiesToTrackOptions,
      can_calculate_standby    : BOOLEAN,
      calculate_results        : { {None, Dec(15, 0)},
                                   {None, Dec(15, 0), Dec(2125, 3)},
                                   {Dec(50, 0)} },
      calculate_suspends       : BOOLEAN,
      standby_power            : {Dec(0, 0), Dec(5, 1)},
      standby_power_on         : {Dec(0, 0), Dec(3, 1)},
      multiply_factor          : {None, Dec(2, 0)},
      multiply_factor_standby  : BOOLEAN,
      ignore_unavailable_state : BOOLEAN,
      rounding_digits          : {2, 4},
      has_condition            : BOOLEAN ]

\* The configurations the behaviours of Spec start from: strategies that
\* suspend, every way of tracking, one setting of the numeric options.
SpecConfigs ==
    { c \in Configs :
        /\ c.calculate_suspends
        /\ c.calculate_results = {None, Dec(15, 0)}
        /\ c.standby_power = Dec(5, 1)
        /\ c.standby_power_on = Dec(0, 0)
        /\ c.multiply_factor = None
        /\ ~c.multiply_factor_standby
        /\ c.rounding_digits = 2
        /\ \/ /\ c.source_entity = RealSource
              /\ c.entities_to_track = <<>>
              /\ c.can_calculate_standby = c.has_condition
              /\ c.ignore_unavailable_state = ~c.has_condition
           \/ /\ c.source_entity = RealSource
              /\ c.entities_to_track = <<RealSource, Secondary>>
              /\ c.can_calculate_standby
              /\ ~c.has_condition
              /\ ~c.ignore_unavailable_state
           \/ /\ c.source_entity = RealSource
              /\ c.entities_to_track = <<Secondary, TrackTemplate>>
              /\ ~c.can_calculate_standby
              /\ ~c.has_condition
              /\ c.ignore_unavailable_state
           \/ /\ c.source_entity = DUMMY_ENTITY_ID
              /\ c.entities_to_track = <<Secondary, TrackTemplate>>
              /\ c.can_calculate_standby
              /\ ~c.has_condition
              /\ ~c.ignore_unavailable_state }

\* The configurations of test_rounding_precision and its like: a strategy
\* that always returns 50 (fixed, power 50), no multiply factor, no condition.
FixedConfigs ==
    { c \in Configs :
        /\ c.calculate_results = {Dec(50, 0)}
        /\ ~c.calculate_suspends
        /\ ~c.can_calculate_standby
        /\ c.source_entity = RealSource
        /\ c.entities_to_track = <<>>
        /\ c.standby_power_on = Dec(0, 0)
        /\ c.multiply_factor = None
        /\ ~c.multiply_factor_standby
        /\ ~c.ignore_unavailable_state
        /\ ~c.has_condition }

\* The configurations of test_initial_state_is_calculated_after_startup and
\* its like: a strategy that tracks a template and no entity
TemplateConfigs ==
    { c \in Configs :
        /\ c.calculate_results = {Dec(50, 0)}
        /\ ~c.calculate_suspends
        /\ ~c.can_calculate_standby
        /\ c.entities_to_track = <<TrackTemplate>>
        /\ c.standby_power = Dec(0, 0)
        /\ c.standby_power_on = Dec(0, 0)
        /\ c.multiply_factor = None
        /\ ~c.multiply_factor_standby
        /\ ~c.ignore_unavailable_state
        /\ c.rounding_digits = 2
        /\ ~c.has_condition }

\* The configurations the behaviours of SpecCalc start from: every setting
\* of the numeric options with a strategy whose calculate does not suspend
\* and tracks nothing itself, and the configurations of Spec that track
\* something.
CalcConfigs ==
    { c \in Configs :
        /\ ~c.calculate_suspends
        /\ c.calculate_results = {None, Dec(15, 0), Dec(2125, 3)}
        /\ c.entities_to_track = <<>> }
    \cup { c \in SpecConfigs : c.entities_to_track /= <<>> }
    \cup FixedConfigs
    \cup TemplateConfigs

----------------------------------------------------------------------------
(* async_added_to_hass: what is tracked *)

Range(s) == {s[i] : i \in DOMAIN s}

\* isinstance(entity, str)
IsEntityId(x) == x \in Entities \cup {DUMMY_ENTITY_ID}

\* isinstance(template, TrackTemplate)
IsTrackTemplate(x) == x = TrackTemplate

\* variant of TrackEntities: the source entity is tracked in any case
TrackEntitiesWithSource(c) ==
    LET track_entities == SelectSeq(c.entities_to_track, IsEntityId)
    IN  IF c.source_entity \in Range(track_entities) THEN track_entities
        ELSE Append(track_entities, c.source_entity)

\* track_entities, with the source entity as the default
TrackEntities(c) ==
    LET track_entities == SelectSeq(c.entities_to_track, IsEntityId)
    IN  IF track_entities = <<>> THEN <<c.source_entity>> ELSE track_entities

\* track_templates
TrackTemplates(c) ==
    SelectSeq(c.entities_to_track, IsTrackTemplate)

\* the entities whose state the sensor is told of or reads
Observed(c) == (Range(TrackEntities(c)) \cup {c.source_entity}) \cap Entities

----------------------------------------------------------------------------
(* The recompute cycle *)

\* variant of HasValidState: "unknown" is let through like "unavailable"
\* when ignore_unavailable_state is set
HasValidStateUnknownIgnored(c, state) ==
    IF c.source_entity = DUMMY_ENTITY_ID THEN TRUE
    ELSE IF state = None THEN FALSE
    ELSE IF ~c.ignore_unavailable_state
            /\ state.state \in {STATE_UNKNOWN, STATE_UNAVAILABLE}
         THEN FALSE
    ELSE TRUE

\* variant of HasValidState: "unavailable" is valid whatever
\* ignore_unavailable_state says
HasValidStateUnavailableIgnored(c, state) ==
    IF c.source_entity = DUMMY_ENTITY_ID THEN TRUE
    ELSE IF state = None THEN FALSE
    ELSE IF state.state = STATE_UNKNOWN THEN FALSE
    ELSE TRUE

\* VirtualPowerSensor._has_valid_state
HasValidState(c, state) ==
    IF c.source_entity = DUMMY_ENTITY_ID THEN TRUE
    ELSE IF state = None THEN FALSE
    ELSE IF state.state = STATE_UNKNOWN THEN FALSE
    ELSE IF ~c.ignore_unavailable_state /\ state.state = STATE_UNAVAILABLE
         THEN FALSE
    ELSE TRUE

\* VirtualPowerSensor.is_calculation_enabled; rendered is what the template
\* renders to in this cycle
IsCalculationEnabled(c, rendered) ==
    IF ~c.has_condition THEN TRUE ELSE rendered

\* variant of IsStandbyPath: only the state decides, the condition is ignored
IsStandbyPathByStateOnly(state, is_calculation_enabled) ==
    state.state \in OFF_STATES

\* the condition of calculate_power that selects the standby branch
IsStandbyPath(state, is_calculation_enabled) ==
    state.state \in OFF_STATES \/ ~is_calculation_enabled

\* whether calculate_power awaits self._power_calculator.calculate(state)
CallsStrategy(c, state, is_calculation_enabled) ==
    IsStandbyPath(state, is_calculation_enabled) => c.can_calculate_standby

\* `None * Decimal` and `Decimal(None)` raise TypeError
TypeError == [error |-> "TypeError"]

\* variant of CalculatePower: the standby branch always takes the configured
\* standby power, also when the strategy can calculate standby
CalculatePowerConstantStandby(c, state, is_calculation_enabled, r) ==
    LET mul_standby == c.multiply_factor_standby /\ Truthy(c.multiply_factor)
    IN  IF IsStandbyPath(state, is_calculation_enabled)
        THEN IF mul_standby
             THEN DecMul(c.standby_power, c.multiply_factor)
             ELSE c.standby_power
        ELSE IF r = None THEN None
        ELSE LET p1 == IF Truthy(c.multiply_factor)
                       THEN DecMul(r, c.multiply_factor) ELSE r
                 on == IF mul_standby
                       THEN DecMul(c.standby_power_on, c.multiply_factor)
                       ELSE c.standby_power_on
             IN  IF Truthy(c.standby_power_on) THEN DecAdd(p1, on) ELSE p1

\* variant of CalculatePower: the standby branch multiplies whenever a
\* multiply factor is configured, whatever multiply_factor_standby says
CalculatePowerStandbyAlwaysMultiplied(c, state, is_calculation_enabled, r) ==
    LET mul_standby == c.multiply_factor_standby /\ Truthy(c.multiply_factor)
    IN  IF IsStandbyPath(state, is_calculation_enabled)
        THEN LET standby_power ==
                     IF c.can_calculate_standby THEN r ELSE c.standby_power
             IN  IF standby_power = None THEN TypeError
                 ELSE IF Truthy(c.multiply_factor)
                      THEN DecMul(standby_power, c.multiply_factor)
                      ELSE standby_power
        ELSE IF r = None THEN None
        ELSE LET p1 == IF Truthy(c.multiply_factor)
                       THEN DecMul(r, c.multiply_factor) ELSE r
                 on == IF mul_standby
                       THEN DecMul(c.standby_power_on, c.multiply_factor)
                       ELSE c.standby_power_on
             IN  IF Truthy(c.standby_power_on) THEN DecAdd(p1, on) ELSE p1

\* variant of CalculatePower: the active branch adds standby_power_on before
\* it multiplies, so the addition is multiplied whenever the result is
CalculatePowerOnAddedFirst(c, state, is_calculation_enabled, r) ==
    LET mul_standby == c.multiply_factor_standby /\ Truthy(c.multiply_factor)
    IN  IF IsStandbyPath(state, is_calculation_enabled)
        THEN LET standby_power ==
                     IF c.can_calculate_standby THEN r ELSE c.standby_power
             IN  IF standby_power = None THEN TypeError
                 ELSE IF mul_standby
                      THEN DecMul(standby_power, c.multiply_factor)
                      ELSE standby_power
        ELSE IF r = None THEN None
        ELSE LET p0 == IF Truthy(c.standby_power_on)
                       THEN DecAdd(r, c.standby_power_on) ELSE r
             IN  IF Truthy(c.multiply_factor)
                 THEN DecMul(p0, c.multiply_factor) ELSE p0

\* VirtualPowerSensor.calculate_power; r is what the strategy's calculate
\* returns if it is called.  The result is a Decimal, None, or TypeError.
CalculatePower(c, state, is_calculation_enabled, r) ==
    LET mul_standby == c.multiply_factor_standby /\ Truthy(c.multiply_factor)
    IN  IF IsStandbyPath(state, is_calculation_enabled)
        THEN LET standby_power ==
                     IF c.can_calculate_standby THEN r ELSE c.standby_power
             IN  IF standby_power = None THEN TypeError
                 ELSE IF mul_standby
                      THEN DecMul(standby_power, c.multiply_factor)
                      ELSE standby_power
        ELSE IF r = None THEN None
        ELSE LET p1 == IF Truthy(c.multiply_factor)
                       THEN DecMul(r, c.multiply_factor) ELSE r
                 on == IF mul_standby
                       THEN DecMul(c.standby_power_on, c.multiply_factor)
                       ELSE c.standby_power_on
             IN  IF Truthy(c.standby_power_on) THEN DecAdd(p1, on) ELSE p1

\* variant of RoundedPower: the value is assigned as calculate_power returned it
RoundedPowerUnrounded(c, calculated) == calculated

\* variant of RoundedPower: the value is added to the one published before
RoundedPowerAccumulated(c, calculated) ==
    IF calculated = None THEN None
    ELSE IF power = None THEN DecRound(calculated, c.rounding_digits)
    ELSE DecRound(DecAdd(power, calculated), c.rounding_digits)

\* variant of RoundedPower: a None from calculate_power keeps the old value
RoundedPowerKeepsOld(c, calculated) ==
    IF calculated = None THEN power ELSE DecRound(calculated, c.rounding_digits)

\* the value _update_power_sensor assigns to self._power from what
\* calculate_power returned
RoundedPower(c, calculated) ==
    IF calculated = None THEN None ELSE DecRound(calculated, c.rounding_digits)

\* variant of EffectiveState: the dummy source counts as "off"
EffectiveStateOff(c, state) ==
    IF c.source_entity = DUMMY_ENTITY_ID
    THEN State(c.source_entity, STATE_OFF)
    ELSE state

\* the state _update_power_sensor works on: always "on" for the dummy source
EffectiveState(c, state) ==
    IF c.source_entity = DUMMY_ENTITY_ID
    THEN State(c.source_entity, STATE_ON)
    ELSE state

----------------------------------------------------------------------------
(* Triggers and tasks *)

\* a new trigger is recorded; its id is its arrival number
Arrived(kind) ==
    Append(triggers, [kind |-> kind, attempts |-> 0, raised |-> FALSE,
                      after_remove |-> removed])

\* one more call of _update_power_sensor on behalf of trigger id
Attempted(id) == [triggers EXCEPT ![id].attempts = @ + 1]

\* the task the event loop creates for a listener coroutine
Task(id, kind, new_state) == [id |-> id, kind |-> kind, new_state |-> new_state]

\* what is left of initial_update's loop after one iteration
Continue(id, rest) ==
    IF rest = <<>> THEN None ELSE [id |-> id, rest |-> rest]

NoAttempt ==
    [ n |-> 0, id |-> 0, kind |-> "none", trigger_entity_id |-> "",
      state |-> None, valid |-> FALSE, enabled |-> TRUE, path |-> "none",
      called |-> FALSE, result |-> None, outcome |-> "none",
      before |-> None, repeats |-> FALSE ]

\* the record of an attempt that ends now: before is self._power at its end,
\* repeats tells whether the attempt before it published a value and had the
\* same state, condition and strategy result
Attempt(id, kind, entity_id, state, valid, enabled, path, called, result, outcome) ==
    [ n |-> last.n + 1, id |-> id, kind |-> kind,
      trigger_entity_id |-> entity_id, state |-> state,
      valid |-> valid, enabled |-> enabled, path |-> path, called |-> called,
      result |-> result, outcome |-> outcome, before |-> power,
      repeats |-> /\ last.outcome = "published"
                  /\ last.state = state
                  /\ last.enabled = enabled
                  /\ last.called = called
                  /\ last.result = result ]

PathOf(state, enabled) ==
    IF IsStandbyPath(state, enabled) THEN "standby" ELSE "active"

\* _update_power_sensor from `self._power = await self.calculate_power(state)`
\* on, once the strategy (if called) has returned r; trg is the trigger
\* history up to here
Finish(id, kind, trigger_entity_id, state, enabled, called, r, rest, trg) ==
    LET calculated == CalculatePower(cfg, state, enabled, r)
        path == PathOf(state, enabled)
        res == IF called THEN r ELSE None
    IN  IF calculated = TypeError
        THEN \* the exception leaves _update_power_sensor and its caller
             /\ UNCHANGED <<power, written>>
             /\ cur' = None
             /\ triggers' = [trg EXCEPT ![id].raised = TRUE]
             /\ last' = Attempt(id, kind, trigger_entity_id, state, TRUE,
                                enabled, path, called, res, "error")
        ELSE /\ power' = RoundedPower(cfg, calculated)
             /\ written' = power'
             /\ cur' = Continue(id, rest)
             /\ triggers' = trg
             /\ last' = Attempt(id, kind, trigger_entity_id, state, TRUE,
                                enabled, path, called, res,
                                IF calculated = None THEN "no_estimate"
                                ELSE "published")

\* one call of _update_power_sensor(trigger_entity_id, state0), up to its end
\* or up to the point where the strategy's calculate suspends; w is the set
\* of suspended cycles without this one
UpdatePowerSensor(id, kind, trigger_entity_id, state0, rest, w) ==
    LET state == EffectiveState(cfg, state0)
    IN  IF ~HasValidState(cfg, state)
        THEN /\ power' = None
             /\ written' = None
             /\ waiting' = w
             /\ cur' = Continue(id, rest)
             /\ triggers' = Attempted(id)
             /\ last' = Attempt(id, kind, trigger_entity_id, state, FALSE,
                                TRUE, "none", FALSE, None, "invalid")
        ELSE \E rendered \in (IF cfg.has_condition THEN BOOLEAN ELSE {TRUE}) :
             LET enabled == IsCalculationEnabled(cfg, rendered)
             IN  IF ~CallsStrategy(cfg, state, enabled)
                 THEN /\ waiting' = w
                      /\ Finish(id, kind, trigger_entity_id, state, enabled,
                                FALSE, None, rest, Attempted(id))
                 ELSE \/ \* calculate returns without suspending
                         /\ waiting' = w
                         /\ \E r \in cfg.calculate_results :
                              Finish(id, kind, trigger_entity_id, state,
                                     enabled, TRUE, r, rest, Attempted(id))
                      \/ \* calculate suspends: the event loop runs on
                         /\ cfg.calculate_suspends
                         /\ waiting' = w \cup
                              { [ id |-> id, kind |-> kind,
                                  trigger_entity_id |-> trigger_entity_id,
                                  state |-> state, enabled |-> enabled,
                                  rest |-> rest ] }
                         /\ cur' = None
                         /\ triggers' = Attempted(id)
                         /\ UNCHANGED <<power, written, last>>

----------------------------------------------------------------------------
(* The factory: create_power_sensor *)

\* The sensor configuration create_power_sensor is called with ("None" for a
\* key that is absent), and what the factory finds around it:
\* entry_unique_id is the unique id of the entity registry's entry for
\* power_sensor_id ("None" without an entry), profile is what the power
\* profile lookup gives, config_error whether the strategy's validate_config
\* raises StrategyConfigurationError.
SensorConfigs ==
    [ power_sensor_id : {"None", "sensor.existing_power"},
      unique_id       : {"None", "uid_config"},
      entry_unique_id : {"None", "1234"},
      mode            : {"None", "lut"},
      linear          : BOOLEAN,
      fixed           : BOOLEAN,
      wled            : BOOLEAN,
      profile         : {"None", "profile", "ModelNotSupported"},
      config_error    : BOOLEAN ]

\* get_simple_fixed_config of the tests: a fixed strategy, nothing else
FixedSensorConfig ==
    [ power_sensor_id |-> "None", unique_id |-> "None",
      entry_unique_id |-> "None", mode |-> "None", linear |-> FALSE,
      fixed |-> TRUE, wled |-> FALSE, profile |-> "None",
      config_error |-> FALSE ]

\* variant of select_calculation_strategy: the fixed block is looked at
\* before the linear one
SelectFixedBeforeLinear(config) ==
    IF config.mode /= "None" THEN config.mode
    ELSE IF config.fixed THEN "fixed"
    ELSE IF config.linear THEN "linear"
    ELSE IF config.wled THEN "wled"
    ELSE "None"

select_calculation_strategy(config) ==
    IF config.mode /= "None" THEN config.mode
    ELSE IF config.linear THEN "linear"
    ELSE IF config.fixed THEN "fixed"
    ELSE IF config.wled THEN "wled"
    ELSE "None"

\* variant of is_fully_configured: a mode key counts as well
FullyConfiguredByModeKey(config) ==
    config.mode /= "None" \/ config.fixed \/ config.linear \/ config.wled

is_fully_configured(config) ==
    config.fixed \/ config.linear \/ config.wled

\* the entity id generate_power_sensor_entity_id gives the virtual sensor
VirtualEntityId == "sensor.test_power"

\* source_entity.unique_id: the source has no entry in the entity registry
SourceEntityUniqueId == "None"

\* create_power_sensor has not been called yet
NotSetUp ==
    [ pc |-> "create_power_sensor", log |-> <<>>, mode |-> "None",
      error |-> "None", sensor |-> "None", entity_id |-> "None",
      unique_id |-> "None" ]

\* the exception err leaves create_power_sensor
Raised(err) == [setup EXCEPT !.pc = "failed", !.error = err]

\* create_real_power_sensor: the RealPowerSensor it returns
create_real_power_sensor(config) ==
    [setup EXCEPT
       !.pc = "done",
       !.sensor = "real",
       !.entity_id = config.power_sensor_id,
       !.unique_id = IF config.unique_id /= "None" THEN config.unique_id
                     ELSE config.entry_unique_id,
       !.log = Append(@, "RealPowerSensor")]

\* variant of CreatePowerSensor: power_sensor_id is not looked at
CreatePowerSensorAlwaysVirtual ==
    /\ setup.pc = "create_power_sensor"
    /\ setup' = [setup EXCEPT
                   !.pc = "get_power_profile",
                   !.mode = select_calculation_strategy(sensor_config),
                   !.log = Append(@, "select_calculation_strategy")]
    /\ UNCHANGED <<cfg, sensor_config, hass_running, added, removed, states,
                   power, written, queue, waiting, cur, budget, triggers,
                   last>>

\* create_power_sensor, and for a virtual sensor create_virtual_power_sensor
\* up to where it awaits get_power_profile
CreatePowerSensor ==
    /\ setup.pc = "create_power_sensor"
    /\ IF sensor_config.power_sensor_id /= "None"
       THEN setup' = create_real_power_sensor(sensor_config)
       ELSE setup' = [setup EXCEPT
                        !.pc = "get_power_profile",
                        !.mode = select_calculation_strategy(sensor_config),
                        !.log = Append(@, "select_calculation_strategy")]
    /\ UNCHANGED <<cfg, sensor_config, hass_running, added, removed, states,
                   power, written, queue, waiting, cur, budget, triggers,
                   last>>

\* create_virtual_power_sensor from the power profile on: the mode falls back
\* to the profile's first supported mode, the factory creates the strategy and
\* validate_config is called
CreateCalculationStrategy ==
    /\ setup.pc = "get_power_profile"
    /\ LET power_profile ==
               IF sensor_config.profile = "profile" THEN "profile" ELSE "None"
           mode == IF setup.mode = "None" /\ power_profile /= "None"
                   THEN "lut" ELSE setup.mode
       IN  IF /\ sensor_config.profile = "ModelNotSupported"
              /\ ~is_fully_configured(sensor_config)
           THEN setup' = Raised("ModelNotSupported")
           ELSE IF mode = "None"
           THEN setup' = Raised("UnsupportedMode")
           ELSE setup' = [setup EXCEPT
                            !.pc = "validate_config",
                            !.mode = mode,
                            !.log = @ \o <<"create", "validate_config">>]
    /\ UNCHANGED <<cfg, sensor_config, hass_running, added, removed, states,
                   power, written, queue, waiting, cur, budget, triggers,
                   last>>

\* variant of ValidatedConfig: a StrategyConfigurationError is swallowed
ValidatedConfigAnyway ==
    /\ setup.pc = "validate_config"
    /\ setup' = [setup EXCEPT
                   !.pc = "done",
                   !.sensor = "virtual",
                   !.entity_id = VirtualEntityId,
                   !.unique_id = IF sensor_config.unique_id /= "None"
                                 THEN sensor_config.unique_id
                                 ELSE SourceEntityUniqueId,
                   !.log = Append(@, "VirtualPowerSensor")]
    /\ UNCHANGED <<cfg, sensor_config, hass_running, added, removed, states,
                   power, written, queue, waiting, cur, budget, triggers,
                   last>>

\* create_virtual_power_sensor once validate_config is over: its
\* StrategyConfigurationError is raised again, else the VirtualPowerSensor
\* is constructed with cfg
ValidatedConfig ==
    /\ setup.pc = "validate_config"
    /\ IF sensor_config.config_error
       THEN setup' = Raised("StrategyConfigurationError")
       ELSE setup' = [setup EXCEPT
                        !.pc = "done",
                        !.sensor = "virtual",
                        !.entity_id = VirtualEntityId,
                        !.unique_id = IF sensor_config.unique_id /= "None"
                                 THEN sensor_config.unique_id
                                 ELSE SourceEntityUniqueId,
                        !.log = Append(@, "VirtualPowerSensor")]
    /\ UNCHANGED <<cfg, sensor_config, hass_running, added, removed, states,
                   power, written, queue, waiting, cur, budget, triggers,
                   last>>

\* what setup is once create_power_sensor has made a virtual sensor from
\* FixedSensorConfig
SetUpVirtual ==
    [ pc |-> "done",
      log |-> <<"select_calculation_strategy", "create", "validate_config",
                "VirtualPowerSensor">>,
      mode |-> "fixed", error |-> "None", sensor |-> "virtual",
      entity_id |-> VirtualEntityId, unique_id |-> "None" ]

\* the entities of the group the platform makes of the sensors
\* create_power_sensor returned
GroupEntities ==
    IF setup.sensor = "None" THEN {} ELSE {setup.entity_id}

----------------------------------------------------------------------------
(* Actions *)

Idle == cur = None

CanHappen == budget > 0

\* variant of AddedToHass: the listeners are registered, but initial_update
\* is not run when hass is running already
AddedToHassNoInitialUpdate ==
    /\ setup.sensor = "virtual"
    /\ ~added
    /\ Idle
    /\ added' = TRUE
    /\ UNCHANGED <<cfg, sensor_config, setup, removed, hass_running, states, power, written, queue, waiting,
                   cur, budget, triggers, last>>

\* variant of AddedToHass: initial_update is run during setup even while
\* hass is still starting
AddedToHassEager ==
    /\ setup.sensor = "virtual"
    /\ ~added
    /\ Idle
    /\ added' = TRUE
    /\ triggers' = Arrived("startup")
    /\ queue' = Append(queue, Task(Len(triggers) + 1, "startup", None))
    /\ UNCHANGED <<cfg, sensor_config, setup, removed, hass_running, states, power, written, waiting, cur,
                   budget, last>>

\* Entity.add_to_platform: async_added_to_hass registers the listeners;
\* start.async_at_start runs initial_update at once if hass is running
AddedToHass ==
    /\ setup.sensor = "virtual"
    /\ ~added
    /\ Idle
    /\ added' = TRUE
    /\ IF hass_running
       THEN /\ triggers' = Arrived("startup")
            /\ queue' = Append(queue, Task(Len(triggers) + 1, "startup", None))
       ELSE UNCHANGED <<triggers, queue>>
    /\ UNCHANGED <<cfg, sensor_config, setup, removed, hass_running, states, power, written, waiting, cur,
                   budget, last>>

\* EVENT_HOMEASSISTANT_START: the listener of start.async_at_start fires once
HassStart ==
    /\ ~hass_running
    /\ Idle
    /\ hass_running' = TRUE
    /\ IF added /\ ~removed
       THEN /\ triggers' = Arrived("startup")
            /\ queue' = Append(queue, Task(Len(triggers) + 1, "startup", None))
       ELSE UNCHANGED <<triggers, queue>>
    /\ UNCHANGED <<cfg, sensor_config, setup, removed, added, states, power, written, waiting, cur, budget,
                   last>>

\* hass.states.async_set / async_remove of an entity: a state_changed event,
\* delivered to appliance_state_listener if the entity is tracked
StateChange(entity_id, label) ==
    /\ Idle
    /\ CanHappen
    /\ ~(label = "None" /\ states[entity_id] = "None")
    /\ budget' = budget - 1
    /\ states' = [states EXCEPT ![entity_id] = label]
    /\ IF added /\ entity_id \in Range(TrackEntities(cfg))
       THEN /\ triggers' = Arrived("state")
            /\ queue' = Append(queue,
                   Task(Len(triggers) + 1, "state",
                        IF label = "None" THEN None
                        ELSE State(entity_id, label)))
       ELSE UNCHANGED <<triggers, queue>>
    /\ UNCHANGED <<cfg, sensor_config, setup, removed, hass_running, added, power, written, waiting, cur, last>>

\* async_track_template_result reports a changed result of a tracked template
TemplateChange ==
    /\ Idle
    /\ added
    /\ TrackTemplates(cfg) /= <<>>
    /\ CanHappen
    /\ budget' = budget - 1
    /\ triggers' = Arrived("template")
    /\ queue' = Append(queue, Task(Len(triggers) + 1, "template", None))
    /\ UNCHANGED <<cfg, sensor_config, setup, removed, hass_running, added, states, power, written, waiting,
                   cur, last>>

\* async_track_time_interval calls async_update:
\* async_schedule_update_ha_state(True) writes the state again
TimerTick ==
    /\ Idle
    /\ added
    /\ CanHappen
    /\ budget' = budget - 1
    /\ triggers' = Arrived("timer")
    /\ written' = power
    /\ UNCHANGED <<cfg, sensor_config, setup, removed, hass_running, added, states, power, queue, waiting,
                   cur, last>>

\* Entity.async_remove: the callbacks registered with async_on_remove are
\* called.  Only the handle of start.async_at_start was registered: the start
\* listener is cancelled, while the handles async_track_state_change_event,
\* async_track_template_result and async_track_time_interval returned were
\* dropped, so those listeners stay.
Remove ==
    /\ Idle
    /\ added
    /\ ~removed
    /\ CanHappen
    /\ budget' = budget - 1
    /\ removed' = TRUE
    /\ UNCHANGED <<cfg, sensor_config, setup, hass_running, added, states, power, written, queue,
                   waiting, cur, triggers, last>>

\* variant of RunStateListener: the listener returns without updating
RunStateListenerDrops ==
    /\ Idle
    /\ queue /= <<>>
    /\ Head(queue).kind = "state"
    /\ queue' = Tail(queue)
    /\ UNCHANGED <<cfg, sensor_config, setup, removed, hass_running, added, states, power, written, waiting,
                   cur, budget, triggers, last>>

\* the event loop starts the oldest task: appliance_state_listener
RunStateListener ==
    /\ Idle
    /\ queue /= <<>>
    /\ Head(queue).kind = "state"
    /\ queue' = Tail(queue)
    /\ UpdatePowerSensor(Head(queue).id, "state", cfg.source_entity,
                         Head(queue).new_state, <<>>, waiting)
    /\ UNCHANGED <<cfg, sensor_config, setup, removed, hass_running, added, states, budget>>

\* the event loop starts the oldest task: template_change_listener
RunTemplateListener ==
    /\ Idle
    /\ queue /= <<>>
    /\ Head(queue).kind = "template"
    /\ queue' = Tail(queue)
    /\ UpdatePowerSensor(Head(queue).id, "template", cfg.source_entity,
                         StatesGet(states, cfg.source_entity), <<>>, waiting)
    /\ UNCHANGED <<cfg, sensor_config, setup, removed, hass_running, added, states, budget>>

\* the event loop starts the oldest task: initial_update, first iteration
RunInitialUpdate ==
    /\ Idle
    /\ queue /= <<>>
    /\ Head(queue).kind = "startup"
    /\ queue' = Tail(queue)
    /\ LET track == TrackEntities(cfg)
       IN  UpdatePowerSensor(Head(queue).id, "startup", Head(track),
                             StatesGet(states, Head(track)), Tail(track),
                             waiting)
    /\ UNCHANGED <<cfg, sensor_config, setup, removed, hass_running, added, states, budget>>

\* initial_update goes on with the next tracked entity
ContinueInitialUpdate ==
    /\ cur /= None
    /\ UpdatePowerSensor(cur.id, "startup", Head(cur.rest),
                         StatesGet(states, Head(cur.rest)), Tail(cur.rest),
                         waiting)
    /\ UNCHANGED <<cfg, sensor_config, setup, removed, hass_running, added, states, queue, budget>>

\* the strategy's calculate returns to a suspended cycle
Resume(t) ==
    /\ Idle
    /\ t \in waiting
    /\ waiting' = waiting \ {t}
    /\ \E r \in cfg.calculate_results :
         Finish(t.id, t.kind, t.trigger_entity_id, t.state, t.enabled, TRUE,
                r, t.rest, triggers)
    /\ UNCHANGED <<cfg, sensor_config, setup, removed, hass_running, added, states, queue, budget>>

\* the state in which no estimator is added yet: c is what the constructor of
\* VirtualPowerSensor gets or will get, n the number of events to come
Fresh(c, n) ==
    /\ cfg = c
    /\ hass_running = FALSE
    /\ added = FALSE
    /\ removed = FALSE
    /\ states = [e \in Entities |->
                    IF e \in Observed(c) THEN STATE_OFF ELSE "None"]
    /\ power = None
    /\ written = None
    /\ queue = <<>>
    /\ waiting = {}
    /\ cur = None
    /\ budget = n
    /\ triggers = <<>>
    /\ last = NoAttempt

\* the state once the VirtualPowerSensor is constructed with configuration c
\* and may see n events
Constructed(c, n) ==
    /\ sensor_config = FixedSensorConfig
    /\ setup = SetUpVirtual
    /\ Fresh(c, n)

Init == \E c \in SpecConfigs : Constructed(c, MaxEvents)

InitCalc == \E c \in CalcConfigs : Constructed(c, MaxCalcEvents)

Next ==
    \/ AddedToHass
    \/ HassStart
    \/ \E e \in Observed(cfg), l \in Labels : StateChange(e, l)
    \/ TemplateChange
    \/ TimerTick
    \/ Remove
    \/ RunStateListener
    \/ RunTemplateListener
    \/ RunInitialUpdate
    \/ ContinueInitialUpdate
    \/ \E t \in waiting : Resume(t)

Spec == Init /\ [][Next]_vars

SpecCalc == InitCalc /\ [][Next]_vars

\* the constructor arguments the behaviours of SpecSetup go on with when the
\* sensor configuration is not FixedSensorConfig
SetupCfg ==
    CHOOSE c \in FixedConfigs :
      c.rounding_digits = 2 /\ c.standby_power = Dec(0, 0)

\* before create_power_sensor is called
InitSetup ==
    \E sc \in SensorConfigs, c \in SpecConfigs \cup {SetupCfg} :
      /\ sc = FixedSensorConfig \/ c = SetupCfg
      /\ sensor_config = sc
      /\ setup = NotSetUp
      /\ Fresh(c, MaxSetupEvents)

NextSetup ==
    \/ CreatePowerSensor
    \/ CreateCalculationStrategy
    \/ ValidatedConfig
    \/ Next

SpecSetup == InitSetup /\ [][NextSetup]_vars

----------------------------------------------------------------------------
(* Properties *)

\* no task is scheduled, suspended or half way through initial_update
Quiescent == queue = <<>> /\ waiting = {} /\ cur = None

\* the attempt that ended most recently took the active path and the strategy
\* returned no estimate in it
ActiveNoEstimate ==
    last.n > 0 /\ last.path = "active" /\ last.called /\ last.result = None

\* C1, as stated: after a cycle in which the strategy returned "no estimate"
\* on the active path, the value and the availability are what they were
\* before the cycle.
C1_NoEstimateLeavesValue ==
    ActiveNoEstimate => (power = last.before /\ written = last.before)

\* C1, amended: after a cycle in which the strategy returned "no estimate" on
\* the active path the estimator is Unavailable (value Absent), whatever it
\* published before.
C1_NoEstimatePublishesAbsent ==
    ActiveNoEstimate => (power = None /\ written = None)

C1_Witness ==
    ActiveNoEstimate /\ last.before /= None /\ power = None

\* C2, as stated: once everything is processed, every trigger that arrived
\* (state change, template result, timer tick, start signal) has led to
\* exactly one call of _update_power_sensor.
C2_ExactlyOneAttempt ==
    Quiescent => \A i \in DOMAIN triggers : triggers[i].attempts = 1

\* C2, amended: once everything is processed, every state change of a tracked
\* entity and every template result has led to exactly one attempt, a timer
\* tick to none (it only writes the current value again), and the start
\* signal to one attempt per tracked entity, or to fewer, but at least one,
\* when an attempt raised.
C2_AttemptsPerTrigger ==
    Quiescent =>
      \A i \in DOMAIN triggers :
        LET t == triggers[i]
            tracked == Len(TrackEntities(cfg))
        IN  /\ t.kind \in {"state", "template"} => t.attempts = 1
            /\ t.kind = "timer" => t.attempts = 0 /\ written = power
            /\ t.kind = "startup" =>
                 IF t.raised THEN t.attempts \in 1..tracked
                 ELSE t.attempts = tracked

C2_Witness ==
    /\ Quiescent
    /\ \E i, j, k \in DOMAIN triggers :
         /\ triggers[i].kind = "startup" /\ triggers[i].attempts = 2
         /\ triggers[j].kind = "timer" /\ triggers[j].attempts = 0
         /\ triggers[k].kind = "state" /\ triggers[k].attempts = 1

\* C3, as stated: at most one recompute cycle is in flight (begun and not yet
\* through its publish step) at any time.
C3_AtMostOneInFlight == Cardinality(waiting) <= 1

\* the last trigger that arrived among those that led to an attempt
LastAttempted ==
    LET S == {i \in DOMAIN triggers : triggers[i].attempts > 0}
    IN  CHOOSE i \in S : \A j \in S : j <= i

\* C4, as stated: once all cycles have finished, the cycle that ended last,
\* whose result is the published value, is that of the last trigger that
\* arrived.
C4_LastArrivedWins ==
    (Quiescent /\ last.n > 0) => last.id = LastAttempted

\* C5, as stated: until hass is running no recompute takes place and the
\* estimator stays in its initial Unavailable state.
C5_UnavailableUntilReady ==
    ~hass_running => (last.n = 0 /\ waiting = {} /\ power = None /\ written = None)

\* C5, amended: until hass is running initial_update is not run, and the
\* estimator stays in its initial Unavailable state as long as no state
\* change of a tracked entity and no template result arrives; those events
\* start a recompute cycle also before hass is running.
C5_InitialUpdateWaitsForReady ==
    ~hass_running =>
      /\ \A i \in DOMAIN triggers : triggers[i].kind /= "startup"
      /\ (\A i \in DOMAIN triggers : triggers[i].kind = "timer") =>
           (last.n = 0 /\ waiting = {} /\ power = None /\ written = None)

C5_Witness ==
    ~hass_running /\ added /\ last.n > 0 /\ power /= None

\* initial_update, started for trigger i, has returned or was left by an
\* exception
InitialUpdateOver(i) ==
    /\ \A k \in DOMAIN queue : queue[k].id /= i
    /\ \A t \in waiting : t.id /= i
    /\ cur = None \/ cur.id /= i

\* C6, as stated: once initial_update is over it has made one attempt for
\* every tracked entity.
C6_InitialUpdateVisitsAll ==
    \A i \in DOMAIN triggers :
      (triggers[i].kind = "startup" /\ InitialUpdateOver(i)) =>
        triggers[i].attempts = Len(TrackEntities(cfg))

\* C7, as stated: whenever an attempt has ended and none is in flight, the
\* value is Absent exactly if the attempt that ended most recently failed
\* the validity check or got "no estimate" from the strategy.
C7_AbsentIffFailed ==
    (last.n > 0 /\ waiting = {} /\ cur = None) =>
      ((power = None) <=> (~last.valid \/ (last.called /\ last.result = None)))

\* the label of the state the attempt that ended most recently worked on
LastLabel == IF last.n > 0 /\ last.state /= None THEN last.state.state ELSE "None"

\* C8: an attempt whose source state is "unknown" fails the validity check
\* and leaves the estimator Unavailable, in every configuration.
C8_UnknownPublishesAbsent ==
    LastLabel = STATE_UNKNOWN =>
      (~last.valid /\ power = None /\ written = None)

C8_Witness ==
    /\ LastLabel = STATE_UNKNOWN
    /\ last.before /= None
    /\ power = None
    /\ cfg.ignore_unavailable_state
    /\ cfg.has_condition
    /\ Truthy(cfg.multiply_factor)
    /\ Truthy(cfg.standby_power)

\* C9, as stated: an attempt whose source state is "unavailable" leaves the
\* estimator Unavailable if ignore_unavailable_state is false, and otherwise
\* is valid, takes the standby path and publishes a value.
C9_UnavailableHonoursIgnore ==
    LastLabel = STATE_UNAVAILABLE =>
      IF ~cfg.ignore_unavailable_state
      THEN ~last.valid /\ power = None /\ written = None
      ELSE last.valid /\ last.path = "standby" /\ power /= None

\* the value C10 says the attempt that ended most recently used
ValueUsed ==
    IF last.path = "standby" /\ ~cfg.can_calculate_standby
    THEN cfg.standby_power
    ELSE last.result

\* the factors and the additions the multiplier options can apply to it
Factors ==
    {Dec(1, 0)} \cup (IF Truthy(cfg.multiply_factor)
                      THEN {cfg.multiply_factor} ELSE {})

Additions ==
    IF last.path = "standby" THEN {Dec(0, 0)}
    ELSE {DecMul(cfg.standby_power_on, k) : k \in Factors} \cup {Dec(0, 0)}

\* the configuration of test_standby_power
StandbyExample ==
    /\ cfg.source_entity = RealSource
    /\ ~cfg.can_calculate_standby
    /\ cfg.standby_power = Dec(5, 1)
    /\ cfg.standby_power_on = Dec(0, 0)
    /\ cfg.multiply_factor = None
    /\ cfg.rounding_digits = 2
    /\ ~cfg.has_condition

\* C10: the value an attempt publishes is made from the strategy's result on
\* the active path, and on the standby path from the strategy's result if the
\* strategy can calculate standby and else from the configured standby power;
\* in test_standby_power "off" publishes 0.50 and "on" with 15 publishes 15.00.
C10_ValueUsed ==
    /\ last.outcome = "published" =>
         /\ (last.path = "standby") =
              (LastLabel \in OFF_STATES \/ ~last.enabled)
         /\ ValueUsed /= None
         /\ \E k \in Factors, a \in Additions :
              power = DecRound(DecAdd(DecMul(ValueUsed, k), a),
                               cfg.rounding_digits)
    /\ (StandbyExample /\ last.outcome = "published") =>
         /\ LastLabel = STATE_OFF => power = Dec(50, 2)
         /\ (LastLabel = STATE_ON /\ last.result = Dec(15, 0)) =>
              power = Dec(1500, 2)

C10_Witness ==
    /\ StandbyExample
    /\ last.outcome = "published"
    /\ LastLabel = STATE_ON
    /\ last.before = Dec(50, 2)
    /\ power = Dec(1500, 2)

\* the multiply factor is applied to standby values
MultipliesStandby ==
    cfg.multiply_factor_standby /\ Truthy(cfg.multiply_factor)

\* the attempt that ended most recently published a value on the given path
Published(path) == last.outcome = "published" /\ last.path = path

\* C11: a value published on the standby path is the chosen standby value
\* (configured constant or strategy result) times the multiply factor exactly
\* if multiply_factor_standby is set and a factor is configured, and the
\* chosen value itself otherwise, also when a factor is configured; with
\* factor 2, multiply_factor_standby and standby power 0.5 it is 1.00.
C11_StandbyMultiplier ==
    /\ Published("standby") =>
         /\ ValueUsed /= None
         /\ power = DecRound(IF MultipliesStandby
                             THEN DecMul(ValueUsed, cfg.multiply_factor)
                             ELSE ValueUsed,
                             cfg.rounding_digits)
    /\ ( /\ Published("standby")
         /\ ~cfg.can_calculate_standby
         /\ cfg.standby_power = Dec(5, 1)
         /\ cfg.multiply_factor = Dec(2, 0)
         /\ cfg.rounding_digits = 2 ) =>
         power = (IF cfg.multiply_factor_standby THEN Dec(100, 2)
                  ELSE Dec(50, 2))

C11_Witness ==
    /\ Published("standby")
    /\ ~cfg.can_calculate_standby
    /\ cfg.standby_power = Dec(5, 1)
    /\ cfg.multiply_factor = Dec(2, 0)
    /\ cfg.multiply_factor_standby
    /\ cfg.rounding_digits = 2
    /\ power = Dec(100, 2)

\* what C12 says is added on top of the multiplied result of the active path
StandbyPowerOnAdded ==
    IF ~Truthy(cfg.standby_power_on) THEN Dec(0, 0)
    ELSE IF MultipliesStandby
         THEN DecMul(cfg.standby_power_on, cfg.multiply_factor)
         ELSE cfg.standby_power_on

\* C12: a value published on the active path is the strategy's result, times
\* the multiply factor if one is configured, plus standby_power_on if that is
\* not zero, which is multiplied by the factor only if
\* multiply_factor_standby is set and a factor is configured.
C12_ActiveMultiplier ==
    Published("active") =>
      /\ last.result /= None
      /\ power = DecRound(DecAdd(IF Truthy(cfg.multiply_factor)
                                 THEN DecMul(last.result, cfg.multiply_factor)
                                 ELSE last.result,
                                 StandbyPowerOnAdded),
                          cfg.rounding_digits)

C12_Witness ==
    /\ Published("active")
    /\ last.result = Dec(15, 0)
    /\ cfg.multiply_factor = Dec(2, 0)
    /\ ~cfg.multiply_factor_standby
    /\ cfg.standby_power_on = Dec(3, 1)
    /\ cfg.rounding_digits = 2
    /\ power = Dec(3030, 2)

\* C13: without a calculation-enabled condition every valid attempt is
\* enabled and takes the standby path exactly if the state is an off state;
\* with one, the attempt uses what the condition renders to in that attempt,
\* and if that is false it takes the standby path, also when the state is
\* "on": the strategy is then called only if it can calculate standby, and
\* without that the configured standby power is published.
C13_ConditionSelectsPath ==
    (last.n > 0 /\ last.valid) =>
      /\ ~cfg.has_condition =>
           /\ last.enabled
           /\ (last.path = "standby") = (LastLabel \in OFF_STATES)
      /\ (cfg.has_condition /\ ~last.enabled) =>
           /\ last.path = "standby"
           /\ last.called = cfg.can_calculate_standby
           /\ ~cfg.can_calculate_standby =>
                /\ last.outcome = "published"
                /\ power = DecRound(IF MultipliesStandby
                                    THEN DecMul(cfg.standby_power,
                                                cfg.multiply_factor)
                                    ELSE cfg.standby_power,
                                    cfg.rounding_digits)
      /\ (cfg.has_condition /\ last.enabled) =>
           (last.path = "standby") = (LastLabel \in OFF_STATES)

C13_Witness ==
    /\ cfg.has_condition
    /\ last.n > 0
    /\ last.valid
    /\ ~last.enabled
    /\ LastLabel = STATE_ON
    /\ last.path = "standby"
    /\ ~cfg.can_calculate_standby
    /\ cfg.standby_power = Dec(5, 1)
    /\ ~MultipliesStandby
    /\ cfg.rounding_digits = 2
    /\ power = Dec(50, 2)

\* what calculate_power returned in the attempt that ended most recently, if
\* that attempt published: the standby or the active value before rounding
RawValue ==
    IF last.path = "standby"
    THEN (IF MultipliesStandby THEN DecMul(ValueUsed, cfg.multiply_factor)
          ELSE ValueUsed)
    ELSE DecAdd(IF Truthy(cfg.multiply_factor)
                THEN DecMul(last.result, cfg.multiply_factor)
                ELSE last.result,
                StandbyPowerOnAdded)

Abs(n) == IF n < 0 THEN 0 - n ELSE n

\* C14: a value that is present has exactly rounding_digits fractional
\* digits, it is the value that was written, and when an attempt published it
\* on either path it is the multiple of 10^-rounding_digits nearest to what
\* calculate_power returned; a raw 50 is published as 50.0000 with 4 digits
\* and as 50.00 with 2.
C14_RoundedToDigits ==
    /\ power /= None =>
         (power.exp = cfg.rounding_digits /\ written = power)
    /\ last.outcome = "published" =>
         LET e == Max(RawValue.exp, cfg.rounding_digits)
         IN  2 * Abs(power.coef * Pow10(e - power.exp)
                     - RawValue.coef * Pow10(e - RawValue.exp))
               <= Pow10(e - cfg.rounding_digits)
    /\ (Published("active") /\ cfg \in FixedConfigs) =>
         power = (IF cfg.rounding_digits = 4 THEN Dec(500000, 4)
                  ELSE Dec(5000, 2))

C14_Witness ==
    /\ Published("active")
    /\ cfg \in FixedConfigs
    /\ cfg.rounding_digits = 4
    /\ last.result = Dec(50, 0)
    /\ power = Dec(500000, 4)
    /\ written = Dec(500000, 4)

\* the configuration of test_rounding_precision: fixed strategy with power
\* 50, precision 4, no standby power
RoundingExample ==
    /\ cfg \in FixedConfigs
    /\ cfg.rounding_digits = 4
    /\ cfg.standby_power = Dec(0, 0)

\* the estimator is set up in a running hass, is not removed, and every
\* task has run
SetUpAndSettled == added /\ ~removed /\ hass_running /\ Quiescent

\* C15: in the configuration of test_rounding_precision, once the estimator
\* is set up in a running hass and everything is processed, the value is
\* 0.0000 as long as the source is still "off", and 50.0000 once the source
\* has changed to "on".
C15_RoundingScenario ==
    (RoundingExample /\ SetUpAndSettled) =>
      /\ states[RealSource] = STATE_OFF =>
           (power = Dec(0, 4) /\ written = Dec(0, 4))
      /\ states[RealSource] = STATE_ON =>
           (power = Dec(500000, 4) /\ written = Dec(500000, 4))

C15_Witness ==
    /\ RoundingExample
    /\ SetUpAndSettled
    /\ states[RealSource] = STATE_ON
    /\ last.kind = "state"
    /\ last.before = Dec(0, 4)
    /\ power = Dec(500000, 4)

\* C16, as stated: once the estimator is removed its subscriptions are
\* released: no state change, template result or timer tick that arrives
\* after the removal starts a recompute or a write, and the start signal
\* starts no initial_update.
C16_NothingAfterTeardown ==
    \A i \in DOMAIN triggers :
      triggers[i].after_remove =>
        (triggers[i].kind \notin {"timer", "startup"} /\ triggers[i].attempts = 0)

\* C17, as stated: no attempt raises to its caller: an invalid state and a
\* strategy that returns no estimate, on the standby or the active path and
\* with or without a multiply factor, end the attempt normally.
C17_NoAttemptRaises ==
    /\ last.outcome /= "error"
    /\ \A i \in DOMAIN triggers : ~triggers[i].raised

\* the places of an entry in the log of create_power_sensor
Logged(what) == {i \in DOMAIN setup.log : setup.log[i] = what}

\* nothing is subscribed and no recompute has been attempted
NothingSubscribed ==
    /\ ~added
    /\ triggers = <<>>
    /\ queue = <<>>
    /\ waiting = {}
    /\ last.n = 0
    /\ power = None
    /\ written = None

\* C18: validate_config is called at most once in a setup; a virtual sensor
\* is constructed only after exactly one call, which comes after the
\* strategy was created; listeners are registered and recomputes attempted
\* only for a constructed sensor; and if validate_config raises
\* StrategyConfigurationError the setup fails with that error, no sensor is
\* constructed and nothing is ever subscribed or recomputed.
C18_ValidatedOnceBeforeConstruction ==
    /\ Cardinality(Logged("validate_config")) <= 1
    /\ setup.sensor = "virtual" =>
         \E i \in Logged("create"), j \in Logged("validate_config"),
            k \in Logged("VirtualPowerSensor") :
           /\ i < j
           /\ j < k
           /\ Cardinality(Logged("validate_config")) = 1
    /\ ~NothingSubscribed => setup.sensor = "virtual"
    /\ ( /\ sensor_config.config_error
         /\ Logged("validate_config") /= {}
         /\ setup.pc /= "validate_config" ) =>
         /\ setup.pc = "failed"
         /\ setup.error = "StrategyConfigurationError"
         /\ setup.sensor = "None"
         /\ NothingSubscribed

C18_Witness ==
    /\ setup.error = "StrategyConfigurationError"
    /\ Logged("validate_config") /= {}
    /\ hass_running
    /\ budget = 0
    /\ states[RealSource] = STATE_ON
    /\ NothingSubscribed

\* C20: with power_sensor_id in the configuration create_power_sensor
\* returns a RealPowerSensor for that entity id, whose unique id is the
\* configured one and else that of the registry entry, without selecting a
\* strategy, calling validate_config or subscribing to anything; without
\* power_sensor_id it makes a virtual sensor or fails.  Whichever sensor it
\* returns is an entity of the group.
C20_RealOrVirtual ==
    /\ ( /\ sensor_config.power_sensor_id /= "None"
         /\ setup.pc /= "create_power_sensor" ) =>
         /\ setup.pc = "done"
         /\ setup.sensor = "real"
         /\ setup.entity_id = sensor_config.power_sensor_id
         /\ setup.unique_id =
              (IF sensor_config.unique_id /= "None"
               THEN sensor_config.unique_id
               ELSE sensor_config.entry_unique_id)
         /\ setup.log = <<"RealPowerSensor">>
         /\ NothingSubscribed
    /\ sensor_config.power_sensor_id = "None" =>
         /\ setup.sensor /= "real"
         /\ setup.pc = "done" =>
              (setup.sensor = "virtual" /\ setup.entity_id = VirtualEntityId)
    /\ setup.pc = "done" => setup.entity_id \in GroupEntities

C20_Witness ==
    /\ setup.sensor = "real"
    /\ setup.entity_id = "sensor.existing_power"
    /\ sensor_config.unique_id = "None"
    /\ setup.unique_id = "1234"
    /\ sensor_config.fixed
    /\ sensor_config.config_error
    /\ hass_running
    /\ budget = 0
    /\ NothingSubscribed
    /\ GroupEntities = {"sensor.existing_power"}

\* C19: an attempt that follows an attempt which published a value, and has
\* the same source state, the same result of the condition and the same
\* result of the strategy, publishes that value again: value and
\* availability are what they were.
C19_RepeatedTriggerIdempotent ==
    last.repeats =>
      /\ last.outcome = "published"
      /\ last.before /= None
      /\ power = last.before
      /\ written = last.before

C19_Witness ==
    /\ last.repeats
    /\ last.kind = "state"
    /\ last.called
    /\ last.path = "active"
    /\ power = Dec(1500, 2)
    /\ last.before = Dec(1500, 2)

\* C21, as stated: the state an attempt validates and hands to the strategy
\* is a state of the primary source, whatever entity the trigger came from.
C21_PrimarySourceStateUsed ==
    (last.n > 0 /\ last.state /= None) =>
      last.state.entity_id = cfg.source_entity

\* what get_entities_to_track returned, by kind
DirectEntities == {x \in Range(cfg.entities_to_track) : x /= TrackTemplate}

ExpressionTrackers == {x \in Range(cfg.entities_to_track) : x = TrackTemplate}

\* the entities C22 says are watched: the source only if the strategy
\* returned neither an entity nor a template
WatchedAsStated ==
    IF DirectEntities = {} /\ ExpressionTrackers = {}
    THEN {cfg.source_entity} ELSE DirectEntities

\* the entities watched according to the amended C22
WatchedAmended ==
    IF DirectEntities = {} THEN {cfg.source_entity} ELSE DirectEntities

\* what is seen of the watched set W: a state listener task is made only
\* for entities of W, initial_update visits the entities of W only, and all
\* of them unless an attempt raised, and a template result arrives only if
\* the strategy returned a template
Watches(W) ==
    /\ \A k \in DOMAIN queue :
         (queue[k].kind = "state" /\ queue[k].new_state /= None) =>
           queue[k].new_state.entity_id \in W
    /\ (last.kind = "state" /\ last.state /= None
        /\ cfg.source_entity /= DUMMY_ENTITY_ID) =>
         last.state.entity_id \in W
    /\ last.kind = "startup" => last.trigger_entity_id \in W
    /\ \A i \in DOMAIN triggers :
         /\ ( /\ triggers[i].kind = "startup"
              /\ InitialUpdateOver(i)
              /\ ~triggers[i].raised ) =>
              triggers[i].attempts = Cardinality(W)
         /\ triggers[i].kind = "template" => ExpressionTrackers /= {}

\* C22, as stated: the watched entities are those the strategy returned, and
\* the source alone if it returned neither an entity nor a template.
C22_WatchedAsStated == Watches(WatchedAsStated)

\* C22, amended: the watched entities are those the strategy returned, and
\* the source alone whenever it returned no entity, also when it returned
\* templates, which are then tracked next to the source.
C22_WatchedSourceByDefault == Watches(WatchedAmended)

C22_Witness ==
    /\ cfg.entities_to_track = <<TrackTemplate>>
    /\ cfg.source_entity = RealSource
    /\ hass_running
    /\ last.kind = "state"
    /\ last.state = State(RealSource, STATE_ON)
    /\ power = Dec(5000, 2)

\* C23: with sensor.dummy as the source every attempt works on the state
\* "on" of the source, whatever state the trigger carried: it passes the
\* validity check, takes the active path if the calculation is enabled, and
\* the value is Absent only if the strategy returned no estimate.
C23_DummySourceAlwaysOn ==
    (cfg.source_entity = DUMMY_ENTITY_ID /\ last.n > 0) =>
      /\ last.state = State(DUMMY_ENTITY_ID, STATE_ON)
      /\ last.valid
      /\ last.outcome /= "invalid"
      /\ last.enabled => (last.path = "active" /\ last.called)
      /\ power = None => (last.called /\ last.result = None)

C23_Witness ==
    /\ cfg.source_entity = DUMMY_ENTITY_ID
    /\ states[Secondary] = STATE_UNKNOWN
    /\ last.kind = "state"
    /\ last.valid
    /\ last.path = "active"
    /\ power = Dec(1500, 2)

\* the state the attempt that ended most recently was given fails the
\* validity check of the spec: missing, "unknown", or "unavailable" while
\* ignore_unavailable_state is off
GivenInvalidState ==
    /\ last.n > 0
    /\ cfg.source_entity /= DUMMY_ENTITY_ID
    /\ \/ last.state = None
       \/ LastLabel = STATE_UNKNOWN
       \/ (LastLabel = STATE_UNAVAILABLE /\ ~cfg.ignore_unavailable_state)

\* C24: an attempt that is given no state object publishes Absent like one
\* given "unknown", and every attempt that fails the validity check ends
\* there: calculate_power is not entered, so the condition is not rendered
\* and the strategy is not called, and Absent is published.
C24_InvalidEndsBeforeCalculation ==
    /\ GivenInvalidState <=> (last.n > 0 /\ ~last.valid)
    /\ (last.n > 0 /\ ~last.valid) =>
         /\ last.outcome = "invalid"
         /\ last.path = "none"
         /\ ~last.called
         /\ power = None
         /\ written = None

C24_Witness ==
    /\ last.n > 0
    /\ last.state = None
    /\ ~last.valid
    /\ last.kind = "state"
    /\ cfg.has_condition
    /\ cfg.can_calculate_standby
    /\ last.before /= None
    /\ power = None

\* the attempt that ended most recently took the standby path with a
\* strategy that can calculate standby, and the strategy returned no
\* estimate
StandbyNoEstimate ==
    last.n > 0 /\ last.path = "standby" /\ last.called /\ last.result = None

HasStrategyBlock ==
    sensor_config.fixed \/ sensor_config.linear \/ sensor_config.wled

\* the mode the configuration alone asks for: the mode key, else the first
\* block present of linear, fixed, wled
ConfiguredMode ==
    CASE sensor_config.mode /= "None" -> sensor_config.mode
      [] sensor_config.linear         -> "linear"
      [] sensor_config.fixed          -> "fixed"
      [] sensor_config.wled           -> "wled"
      [] OTHER                        -> "None"

\* the setup of a virtual sensor is past the power profile
PastPowerProfile ==
    /\ sensor_config.power_sensor_id = "None"
    /\ setup.pc \in {"validate_config", "done", "failed"}

\* the setup failed with err before a strategy was created, and no sensor
\* exists
FailedEarlyWith(err) ==
    /\ setup.pc = "failed"
    /\ setup.error = err
    /\ setup.sensor = "None"
    /\ Logged("create") = {}
    /\ NothingSubscribed

\* C26: when the power profile lookup raises ModelNotSupported, the setup
\* fails with that error and no sensor unless the configuration has a fixed,
\* linear or wled block, in which case the strategy of the configured mode is
\* created and the setup goes on to a virtual sensor (or to the strategy's
\* own configuration error); when the lookup finds no profile and the
\* configuration selects no mode, the setup fails with UnsupportedMode and no
\* sensor, and UnsupportedMode is raised in that case only.
C26_FatalUnlessFullyConfigured ==
    /\ (PastPowerProfile /\ sensor_config.profile = "ModelNotSupported") =>
         IF HasStrategyBlock
         THEN /\ Logged("create") /= {}
              /\ setup.mode = ConfiguredMode
              /\ setup.error \in {"None", "StrategyConfigurationError"}
              /\ (setup.pc = "done" => setup.sensor = "virtual")
              /\ (setup.pc = "failed" => sensor_config.config_error)
         ELSE FailedEarlyWith("ModelNotSupported")
    /\ ( /\ PastPowerProfile
         /\ sensor_config.profile = "None"
         /\ ConfiguredMode = "None" ) => FailedEarlyWith("UnsupportedMode")
    /\ setup.error = "UnsupportedMode" =>
         /\ sensor_config.profile = "None"
         /\ ConfiguredMode = "None"
         /\ FailedEarlyWith("UnsupportedMode")

C26_Witness ==
    /\ sensor_config.profile = "ModelNotSupported"
    /\ sensor_config.mode = "None"
    /\ sensor_config.wled
    /\ ~sensor_config.fixed
    /\ ~sensor_config.linear
    /\ setup.sensor = "virtual"
    /\ setup.mode = "wled"
    /\ added

\* C27: for a virtual sensor the mode selected is the mode key if there is
\* one, else the first block present of linear, fixed, wled; only when the
\* configuration selects none and a power profile was found is it the
\* profile's first supported mode; and a strategy is created for no other
\* mode.
C27_SelectionPriority ==
    ( /\ sensor_config.power_sensor_id = "None"
      /\ setup.pc /= "create_power_sensor" ) =>
      /\ ConfiguredMode /= "None" => setup.mode = ConfiguredMode
      /\ ConfiguredMode = "None" =>
           /\ setup.mode \in {"None", "lut"}
           /\ (setup.mode = "lut" => sensor_config.profile = "profile")
           /\ (Logged("create") /= {} => setup.mode = "lut")
      /\ (Logged("create") /= {} => setup.mode /= "None")

C27_Witness ==
    /\ sensor_config.mode = "None"
    /\ sensor_config.linear
    /\ sensor_config.fixed
    /\ sensor_config.wled
    /\ sensor_config.profile = "profile"
    /\ setup.sensor = "virtual"
    /\ setup.mode = "linear"

====
